---- MODULE Spec2Model ----
(***************************************************************************)
(* Recipe API: the database (recipes, tags, ingredients and the two        *)
(* many-to-many link tables) and the request handlers of                   *)
(* recipe/views.py with the serializers of recipe/serializers.py.          *)
(*                                                                         *)
(* A request is handled in one step (the handler runs to its response);    *)
(* the response is then delivered to the client (Deliver) before the next  *)
(* request is taken.  req/resp hold the request being answered.            *)
(*                                                                         *)
(* The account endpoints (user/serializers.py: create-account, issue-token *)
(* and own-profile) work on the user and token tables; they have their own *)
(* specification, UserSpec.  AuthSpec is the specification of the requests *)
(* that carry no valid credentials, on every endpoint.  RaceSpec runs two  *)
(* recipe writes step by step, interleaved (inflight).                     *)
(***************************************************************************)
EXTENDS Integers, Sequences, FiniteSets, TLC

VARIABLES recipes, tags, ingredients, recipe_tags, recipe_ingredients, seq,
          req, resp, users, tokens, useq, inflight

dbvars == <<recipes, tags, ingredients, recipe_tags, recipe_ingredients, seq>>
uservars == <<users, tokens, useq>>
vars == <<recipes, tags, ingredients, recipe_tags, recipe_ingredients, seq,
          req, resp, users, tokens, useq, inflight>>

(* ------------------------------ bounds -------------------------------- *)

\* Rows ever inserted over the three tables (ids are never reused).
MaxRecords == 3

Users == {"u1", "u2"}
Names == {"a", "b"}
Titles == {"t1", "t2"}

\* Descending-name ordering needs an order on names.
NameRank == [n \in Names |-> IF n = "a" THEN 1 ELSE 2]

(* --------------------------- optional values --------------------------- *)

\* A key of a payload or a query parameter is absent (<<>>) or present (<<v>>).
Absent == <<>>
Some(v) == <<v>>
IsPresent(o) == o # <<>>
Val(o) == o[1]

\* The names of a list, and the list of an optional key (empty when absent).
NamesOf(l) == {l[i] : i \in 1..Len(l)}
ListOf(o) == IF IsPresent(o) THEN Val(o) ELSE <<>>

(* ------------------------------ database ------------------------------- *)

\* The items a link table (pairs <<recipe, item>>) gives a recipe.
LinkedTo(links, recipe) == {l[2] : l \in {x \in links : x[1] = recipe}}


DB == [recipes |-> recipes, tags |-> tags, ingredients |-> ingredients,
       recipe_tags |-> recipe_tags, recipe_ingredients |-> recipe_ingredients,
       seq |-> seq]

SetDB(d) ==
    /\ recipes' = d.recipes
    /\ tags' = d.tags
    /\ ingredients' = d.ingredients
    /\ recipe_tags' = d.recipe_tags
    /\ recipe_ingredients' = d.recipe_ingredients
    /\ seq' = d.seq

Inserted(d) == d.seq.recipe + d.seq.tag + d.seq.ingredient

\* f with key k (new or not) set to v.
Put(f, k, v) == [x \in DOMAIN f \cup {k} |-> IF x = k THEN v ELSE f[x]]
\* f without key k.
Drop(f, k) == [x \in DOMAIN f \ {k} |-> f[x]]

(* ----------------------- recipe/serializers.py ------------------------- *)

Matching_AnyUser(table, user, name) ==
    {t \in DOMAIN table : table[t].name = name}
\* The rows of a Tag or Ingredient table owned by user and called name:
\* the lookup of QuerySet.get_or_create(user=auth_user, name=...).
Matching(table, user, name) ==
    {t \in DOMAIN table : table[t].user = user /\ table[t].name = name}

RECURSIVE _get_or_create_tags_AlwaysCreates(_, _, _, _)
_get_or_create_tags_AlwaysCreates(d, auth_user, recipe, tagNames) ==
    IF tagNames = <<>> THEN [db |-> d, ok |-> TRUE]
    ELSE LET id == d.seq.tag + 1
             d1 == [d EXCEPT
                      !.tags = Put(@, id, [user |-> auth_user, name |-> Head(tagNames)]),
                      !.seq.tag = id,
                      !.recipe_tags = @ \cup {<<recipe, id>>}]
         IN  _get_or_create_tags_AlwaysCreates(d1, auth_user, recipe, Tail(tagNames))

\* Tag.objects.get_or_create(user=auth_user, **tag) followed by
\* recipe.tags.add(tag_obj), for each tag of the payload in turn.  Every
\* statement is committed as it runs; a lookup matching several rows raises
\* (ok = FALSE) and the remaining tags are not processed.
RECURSIVE _get_or_create_tags(_, _, _, _)
_get_or_create_tags(d, auth_user, recipe, tagNames) ==
    IF tagNames = <<>> THEN [db |-> d, ok |-> TRUE]
    ELSE LET name == Head(tagNames)
             found == Matching(d.tags, auth_user, name)
         IN  IF Cardinality(found) > 1 THEN [db |-> d, ok |-> FALSE]
             ELSE IF found = {} THEN
                 LET id == d.seq.tag + 1
                     d1 == [d EXCEPT
                              !.tags = Put(@, id, [user |-> auth_user, name |-> name]),
                              !.seq.tag = id,
                              !.recipe_tags = @ \cup {<<recipe, id>>}]
                 IN  _get_or_create_tags(d1, auth_user, recipe, Tail(tagNames))
             ELSE
                 LET id == CHOOSE t \in found : TRUE
                     d1 == [d EXCEPT !.recipe_tags = @ \cup {<<recipe, id>>}]
                 IN  _get_or_create_tags(d1, auth_user, recipe, Tail(tagNames))

RECURSIVE _get_or_create_ingredients_AnyOwner(_, _, _, _)
_get_or_create_ingredients_AnyOwner(d, auth_user, recipe, ingNames) ==
    IF ingNames = <<>> THEN [db |-> d, ok |-> TRUE]
    ELSE LET name == Head(ingNames)
             found == {t \in DOMAIN d.ingredients : d.ingredients[t].name = name}
         IN  IF Cardinality(found) > 1 THEN [db |-> d, ok |-> FALSE]
             ELSE IF found = {} THEN
                 LET id == d.seq.ingredient + 1
                     d1 == [d EXCEPT
                              !.ingredients = Put(@, id, [user |-> auth_user, name |-> name]),
                              !.seq.ingredient = id,
                              !.recipe_ingredients = @ \cup {<<recipe, id>>}]
                 IN  _get_or_create_ingredients_AnyOwner(d1, auth_user, recipe, Tail(ingNames))
             ELSE
                 LET id == CHOOSE t \in found : TRUE
                     d1 == [d EXCEPT !.recipe_ingredients = @ \cup {<<recipe, id>>}]
                 IN  _get_or_create_ingredients_AnyOwner(d1, auth_user, recipe, Tail(ingNames))

\* Ingredient.objects.get_or_create(user=auth_user, **ingredient) followed by
\* recipe.ingredients.add(ingredient_obj), for each ingredient in turn.
RECURSIVE _get_or_create_ingredients(_, _, _, _)
_get_or_create_ingredients(d, auth_user, recipe, ingNames) ==
    IF ingNames = <<>> THEN [db |-> d, ok |-> TRUE]
    ELSE LET name == Head(ingNames)
             found == Matching(d.ingredients, auth_user, name)
         IN  IF Cardinality(found) > 1 THEN [db |-> d, ok |-> FALSE]
             ELSE IF found = {} THEN
                 LET id == d.seq.ingredient + 1
                     d1 == [d EXCEPT
                              !.ingredients = Put(@, id, [user |-> auth_user, name |-> name]),
                              !.seq.ingredient = id,
                              !.recipe_ingredients = @ \cup {<<recipe, id>>}]
                 IN  _get_or_create_ingredients(d1, auth_user, recipe, Tail(ingNames))
             ELSE
                 LET id == CHOOSE t \in found : TRUE
                     d1 == [d EXCEPT !.recipe_ingredients = @ \cup {<<recipe, id>>}]
                 IN  _get_or_create_ingredients(d1, auth_user, recipe, Tail(ingNames))

\* RecipeSerializer.Meta.fields that a client can write (id is read-only).
\* title stands for the scalar columns.
RecipeFields == {"title", "tags", "ingredients"}
\* The columns update() can set with setattr when the validated data has them.
ScalarFields == {"title", "user"}

Validated_KeepsUser(payload) == payload
\* The validated data of a payload: the keys the serializer declares; any
\* other key of the payload (user) is dropped.
Validated(payload) ==
    [k \in DOMAIN payload |-> IF k \in RecipeFields THEN payload[k] ELSE Absent]

\* Validation: title is required unless the update is partial.
IsValid(payload, partial) == partial \/ IsPresent(payload.title)

\* RecipeSerializer.create(validated_data); perform_create passes
\* user = request.user to save(), which overrides any user key.  Returns the database, ok and the new recipe's id.
SerializerCreate(d, auth_user, data) ==
    LET tagNames == IF IsPresent(data.tags) THEN Val(data.tags) ELSE <<>>
        ingNames == IF IsPresent(data.ingredients) THEN Val(data.ingredients) ELSE <<>>
        id == d.seq.recipe + 1
        row == [user  |-> auth_user,
                title |-> Val(data.title),
                image |-> ""]
        d1 == [d EXCEPT !.recipes = Put(@, id, row), !.seq.recipe = id]
        r1 == _get_or_create_tags(d1, auth_user, id, tagNames)
        r2 == IF r1.ok THEN _get_or_create_ingredients(r1.db, auth_user, id, ingNames)
              ELSE r1
    IN  [db |-> r2.db, ok |-> r2.ok, id |-> id]

ClearTags_KeepsLinks(d, id) == d
ClearTags_DeletesRows(d, id) ==
    [d EXCEPT !.tags = [t \in DOMAIN @ \ LinkedTo(d.recipe_tags, id) |-> @[t]],
              !.recipe_tags = {l \in @ : l[2] \notin LinkedTo(d.recipe_tags, id)}]
\* instance.tags.clear() and instance.ingredients.clear().
ClearTags(d, id) == [d EXCEPT !.recipe_tags = {l \in @ : l[1] # id}]
ClearIngredients(d, id) == [d EXCEPT !.recipe_ingredients = {l \in @ : l[1] # id}]

UpdateTags_AbsentIsEmpty(d, auth_user, id, tagsKey) ==
    _get_or_create_tags(ClearTags(d, id), auth_user, id, ListOf(tagsKey))
\* "if tags is not None": the links are replaced when the key is there.
UpdateTags(d, auth_user, id, tagsKey) ==
    IF IsPresent(tagsKey)
    THEN _get_or_create_tags(ClearTags(d, id), auth_user, id, Val(tagsKey))
    ELSE [db |-> d, ok |-> TRUE]
UpdateIngredients(d, auth_user, id, ingredientsKey) ==
    IF IsPresent(ingredientsKey)
    THEN _get_or_create_ingredients(ClearIngredients(d, id), auth_user, id,
                                    Val(ingredientsKey))
    ELSE [db |-> d, ok |-> TRUE]

\* "for attr, value in validated_data.items(): setattr(instance, attr, value)".
SetAttrs(row, data) ==
    [a \in DOMAIN row |->
        IF a \in ScalarFields /\ IsPresent(data[a]) THEN Val(data[a]) ELSE row[a]]

\* RecipeSerializer.update(instance, validated_data).
SerializerUpdate(d, auth_user, id, data) ==
    LET r1 == UpdateTags(d, auth_user, id, data.tags)
        r2 == IF r1.ok THEN UpdateIngredients(r1.db, auth_user, id, data.ingredients)
              ELSE r1
    IN  IF r2.ok
        THEN [db |-> [r2.db EXCEPT !.recipes[id] = SetAttrs(@, data)], ok |-> TRUE]
        ELSE r2

(* --------------------------- recipe/views.py --------------------------- *)

\* A query parameter is absent (<<>>) or a string, held as the pieces
\* between its commas: "1,2" is <<"1", "2">>, "" is <<"">>, "1," is <<"1", "">>.
IsTruthy(param) == param # <<>> /\ param # <<"">>

\* int(i) of Python for the pieces used here; any other piece raises ValueError.
IntOf == [tok \in {"1", "2", "3", " 2"} |->
            IF tok = "1" THEN 1 ELSE IF tok = "3" THEN 3 ELSE 2]

\* RecipeViewSet._params_to_int: [int(i) for i in qs.split(',')].
_params_to_int(qs) ==
    IF \A i \in 1..Len(qs) : qs[i] \in DOMAIN IntOf
    THEN [ok |-> TRUE, ids |-> {IntOf[qs[i]] : i \in 1..Len(qs)}]
    ELSE [ok |-> FALSE, ids |-> {}]

\* A queryset is held as the number of result rows per primary key: a join
\* with a link table multiplies rows, distinct() merges equal rows.
JoinIn_AnyLink(rows, links, ids) ==
    [r \in DOMAIN rows |-> rows[r] * Cardinality({l \in links : l[1] = r})]
JoinIn(rows, links, ids) ==
    [r \in DOMAIN rows |-> rows[r] * Cardinality({l \in links : l[1] = r /\ l[2] \in ids})]
FilterUser_NoOwnerFilter(rows, table, user) == rows
FilterUser(rows, table, user) ==
    [r \in DOMAIN rows |-> IF table[r].user = user THEN rows[r] ELSE 0]
Distinct_Missing(rows) == rows
Distinct(rows) ==
    [r \in DOMAIN rows |-> IF rows[r] > 0 THEN 1 ELSE 0]

RECURSIVE Repeat(_, _)
Repeat(x, n) == IF n = 0 THEN <<>> ELSE <<x>> \o Repeat(x, n - 1)

\* The rows of order (a sequence of primary keys), each as often as it occurs.
RECURSIVE Expand(_, _)
Expand(order, rows) ==
    IF order = <<>> THEN <<>>
    ELSE Repeat(Head(order), rows[Head(order)]) \o Expand(Tail(order), rows)

RECURSIVE OrderByIdDesc_Ascending(_)
OrderByIdDesc_Ascending(S) ==
    IF S = {} THEN <<>>
    ELSE LET m == CHOOSE x \in S : \A y \in S : x <= y
         IN  <<m>> \o OrderByIdDesc_Ascending(S \ {m})

\* order_by('-id').
RECURSIVE OrderByIdDesc(_)
OrderByIdDesc(S) ==
    IF S = {} THEN <<>>
    ELSE LET m == CHOOSE x \in S : \A y \in S : y <= x
         IN  <<m>> \o OrderByIdDesc(S \ {m})

\* order_by("-name"): the orders of S the database may produce (rows of
\* equal name come in any order).
OrderByNameDesc(table, S) ==
    {o \in [1..Cardinality(S) -> S] :
        /\ \A i, j \in DOMAIN o : i # j => o[i] # o[j]
        /\ \A i, j \in DOMAIN o :
              i < j => NameRank[table[o[i]].name] >= NameRank[table[o[j]].name]}

\* RecipeViewSet.get_queryset.
RecipeQueryset(d, user, tagsParam, ingredientsParam) ==
    LET all == [r \in DOMAIN d.recipes |-> 1]
        t   == _params_to_int(tagsParam)
        i   == _params_to_int(ingredientsParam)
        q1  == IF IsTruthy(tagsParam) THEN JoinIn(all, d.recipe_tags, t.ids) ELSE all
        q2  == IF IsTruthy(ingredientsParam)
               THEN JoinIn(q1, d.recipe_ingredients, i.ids) ELSE q1
        q3  == Distinct(FilterUser(q2, d.recipes, user))
    IN  IF (IsTruthy(tagsParam) /\ ~t.ok) \/ (IsTruthy(ingredientsParam) /\ ~i.ok)
        THEN [ok |-> FALSE, rows |-> <<>>]
        ELSE [ok |-> TRUE, rows |-> Expand(OrderByIdDesc(DOMAIN q3), q3)]

\* BaseRecipeAttrViewSet.get_queryset, before the ordering is applied:
\* table is the Tag or Ingredient table, links its link table to recipes
\* (pairs <<recipe, item>>).
\* bool(query_params.get("assigned_only", 0)): true for any non-empty string.
AssignedOnly(param) == param # <<>> /\ param # <<"">>
AttrRows(table, links, user, assignedParam) ==
    LET all == [t \in DOMAIN table |-> 1]
        q1  == IF AssignedOnly(assignedParam)
               THEN [t \in DOMAIN all |-> Cardinality({l \in links : l[2] = t})]
               ELSE all
    IN  Distinct(FilterUser(q1, table, user))

Ids(n) == 1..n

\* request.user of a request that carries no token, or a token that is not
\* in the token table (TokenAuthentication).
Anonymous == "anonymous"

IsAuthenticated_AllowAny(u) == TRUE
\* permission_classes = [IsAuthenticated]: checked before the handler runs.
IsAuthenticated(u) == u # Anonymous

NoReq == [op |-> "none"]
NoResp == [status |-> 0, data |-> <<>>]

Init ==
    /\ recipes = <<>>
    /\ tags = <<>>
    /\ ingredients = <<>>
    /\ recipe_tags = {}
    /\ recipe_ingredients = {}
    /\ seq = [recipe |-> 0, tag |-> 0, ingredient |-> 0]
    /\ req = NoReq
    /\ resp = NoResp
    /\ users = <<>>
    /\ tokens = {}
    /\ useq = 0
    /\ inflight = <<>>

(* ------------------------------ requests ------------------------------- *)

\* Nested tag / ingredient lists of a payload.
NameLists == {<<>>, <<"a">>, <<"b">>, <<"a", "b">>, <<"a", "a">>}

Payload(title, user, tagList, ingList) ==
    [title |-> title, user |-> user, tags |-> tagList, ingredients |-> ingList]

\* Payloads of scalar keys only: a title, a user key, both or none.
ScalarPayloads ==
    {Payload(t, u, Absent, Absent) :
        t \in {Absent} \cup {Some(x) : x \in Titles},
        u \in {Absent} \cup {Some(x) : x \in Users}}

\* Payloads with one nested list, or with both.
NestedPayloads(t) ==
    {Payload(t, Absent, Some(l), Absent) : l \in NameLists}
    \cup {Payload(t, Absent, Absent, Some(l)) : l \in NameLists}
    \cup {Payload(t, Absent, Some(l[1]), Some(l[2])) :
             l \in {<< <<>>, <<>> >>, << <<"a">>, <<"a">> >>, << <<"b">>, <<"a">> >>,
                    << <<"a">>, <<>> >>}}

\* POST payloads: with a title, and the empty payload (invalid).
CreatePayloads ==
    {p \in ScalarPayloads : IsPresent(p.title) \/ ~IsPresent(p.user)}
    \cup NestedPayloads(Some("t1"))

\* PATCH (partial = TRUE) and PUT payloads.
UpdateInputs ==
    ({TRUE} \X ({p \in ScalarPayloads : p.title # Some("t1")
                                         /\ (~IsPresent(p.title) \/ ~IsPresent(p.user))}
                \cup NestedPayloads(Absent)))
    \cup ({FALSE} \X ({p \in ScalarPayloads : p.title # Some("t1")
                                             /\ (IsPresent(p.title) \/ ~IsPresent(p.user))}
                      \cup {p \in NestedPayloads(Some("t2")) :
                              \/ p.tags = Absent /\ p.ingredients = Some(<<>>)
                              \/ p.tags = Some(<<"b">>) /\ p.ingredients = Absent
                              \/ p.tags = Some(<<>>) /\ p.ingredients = Some(<<>>)}))

\* Values of the tags / ingredients query parameters of the recipe list.
IdParams == {<<>>, <<"1">>, <<"1", "2">>}
BadIdParams == {<<"">>, <<"1", "">>, <<"x">>}
ListParams ==
    (IdParams \X IdParams) \cup {<< <<"2">>, <<>> >>}
    \cup (BadIdParams \X {<<>>}) \cup {<< <<>>, <<"x">> >>}

\* Values of the assigned_only query parameter.
AssignedParams == {<<>>, <<"0">>, <<"1">>}

\* POST / PATCH / PUT payloads of the tag and ingredient endpoints:
\* the name key, absent or present.
NamePayloads == {Absent} \cup {Some(n) : n \in Names}

\* PATCH (partial = TRUE) and PUT payloads of the tag and ingredient endpoints.
AttrUpdateInputs == ({TRUE} \X NamePayloads) \cup ({FALSE} \X {Absent, Some("b")})

Idle == req = NoReq

Respond(r, status, data) ==
    /\ req' = r
    /\ resp' = [status |-> status, data |-> data]

(* ------------------------- RecipeViewSet actions ------------------------ *)

ListRecipes(u, tp, ip) ==
    /\ Idle
    /\ UNCHANGED <<uservars, inflight>>
    /\ LET r == [op |-> "list_recipes", user |-> u, tags |-> tp, ingredients |-> ip]
           q == RecipeQueryset(DB, u, tp, ip)
       IN  IF ~IsAuthenticated(u) THEN Respond(r, 401, <<>>)
           ELSE Respond(r, IF q.ok THEN 200 ELSE 500, q.rows)
    /\ UNCHANGED dbvars

RecipeVisible_AnyOwner(d, u, id) == id \in DOMAIN d.recipes
\* get_object(): the row of get_queryset() with this primary key, or 404.
RecipeVisible(d, u, id) ==
    \E i \in 1..Len(RecipeQueryset(d, u, <<>>, <<>>).rows) :
        RecipeQueryset(d, u, <<>>, <<>>).rows[i] = id

RetrieveRecipe(u, id) ==
    /\ Idle
    /\ UNCHANGED <<uservars, inflight>>
    /\ LET r == [op |-> "retrieve_recipe", user |-> u, id |-> id]
       IN  IF ~IsAuthenticated(u) THEN Respond(r, 401, <<>>)
           ELSE IF RecipeVisible(DB, u, id) THEN Respond(r, 200, <<id>>)
           ELSE Respond(r, 404, <<>>)
    /\ UNCHANGED dbvars

CreateRecipe(u, payload) ==
    /\ Idle
    /\ UNCHANGED <<uservars, inflight>>
    /\ LET r == [op |-> "create_recipe", user |-> u, payload |-> payload]
       IN  IF ~IsAuthenticated(u)
           THEN Respond(r, 401, <<>>) /\ UNCHANGED dbvars
           ELSE IF ~IsValid(payload, FALSE)
           THEN Respond(r, 400, <<>>) /\ UNCHANGED dbvars
           ELSE LET res == SerializerCreate(DB, u, Validated(payload))
                IN  /\ Inserted(res.db) <= MaxRecords
                    /\ SetDB(res.db)
                    /\ IF res.ok THEN Respond(r, 201, <<res.id>>)
                       ELSE Respond(r, 500, <<>>)

UpdateRecipe(u, id, partial, payload) ==
    /\ Idle
    /\ UNCHANGED <<uservars, inflight>>
    /\ LET r == [op |-> "update_recipe", user |-> u, id |-> id,
                 partial |-> partial, payload |-> payload]
       IN  IF ~IsAuthenticated(u)
           THEN Respond(r, 401, <<>>) /\ UNCHANGED dbvars
           ELSE IF ~RecipeVisible(DB, u, id)
           THEN Respond(r, 404, <<>>) /\ UNCHANGED dbvars
           ELSE IF ~IsValid(payload, partial)
           THEN Respond(r, 400, <<>>) /\ UNCHANGED dbvars
           ELSE LET res == SerializerUpdate(DB, u, id, Validated(payload))
                IN  /\ Inserted(res.db) <= MaxRecords
                    /\ SetDB(res.db)
                    /\ IF res.ok THEN Respond(r, 200, <<id>>)
                       ELSE Respond(r, 500, <<>>)

DeleteRecipeRow_Cascades(d, id) ==
    [d EXCEPT !.recipes = Drop(@, id),
              !.tags = [t \in DOMAIN @ \ LinkedTo(d.recipe_tags, id) |-> @[t]],
              !.ingredients = [t \in DOMAIN @ \ LinkedTo(d.recipe_ingredients, id) |-> @[t]],
              !.recipe_tags = {l \in @ : l[1] # id /\ l[2] \notin LinkedTo(d.recipe_tags, id)},
              !.recipe_ingredients =
                  {l \in @ : l[1] # id /\ l[2] \notin LinkedTo(d.recipe_ingredients, id)}]
\* Deleting a recipe deletes its rows of the link tables.
DeleteRecipeRow(d, id) ==
    [d EXCEPT !.recipes = Drop(@, id),
              !.recipe_tags = {l \in @ : l[1] # id},
              !.recipe_ingredients = {l \in @ : l[1] # id}]

DestroyRecipe(u, id) ==
    /\ Idle
    /\ UNCHANGED <<uservars, inflight>>
    /\ LET r == [op |-> "destroy_recipe", user |-> u, id |-> id]
       IN  IF ~IsAuthenticated(u)
           THEN Respond(r, 401, <<>>) /\ UNCHANGED dbvars
           ELSE IF ~RecipeVisible(DB, u, id)
           THEN Respond(r, 404, <<>>) /\ UNCHANGED dbvars
           ELSE SetDB(DeleteRecipeRow(DB, id)) /\ Respond(r, 204, <<>>)

\* The image field of an upload: missing, not an image, or an image.
Images == {"", "notanimage", "jpeg"}

IsValidImage_AcceptsAll(image) == TRUE
\* RecipeImageSerializer.is_valid: image is required and has to decode.
IsValidImage(image) == image = "jpeg"

UploadImage(u, id, image) ==
    /\ Idle
    /\ UNCHANGED <<uservars, inflight>>
    /\ LET r == [op |-> "upload_image", user |-> u, id |-> id, image |-> image]
       IN  IF ~IsAuthenticated(u)
           THEN Respond(r, 401, <<>>) /\ UNCHANGED dbvars
           ELSE IF ~RecipeVisible(DB, u, id)
           THEN Respond(r, 404, <<>>) /\ UNCHANGED dbvars
           ELSE IF ~IsValidImage(image)
           THEN Respond(r, 400, <<>>) /\ UNCHANGED dbvars
           ELSE /\ SetDB([DB EXCEPT !.recipes[id].image = "uploads/recipe"])
                /\ Respond(r, 200, <<id>>)

(* ------------- BaseRecipeAttrViewSet: tags and ingredients ------------- *)

\* The list responses get_queryset can produce: the rows in descending
\* order of name, each as often as the queryset holds it.
AttrList(table, links, u, assignedParam) ==
    LET rows == AttrRows(table, links, u, assignedParam)
    IN  {Expand(o, rows) : o \in OrderByNameDesc(table, {t \in DOMAIN rows : rows[t] > 0})}

\* get_object() of a detail request (no query parameters).
AttrVisible(table, links, u, id) ==
    id \in DOMAIN table /\ AttrRows(table, links, u, <<>>)[id] > 0

\* TagSerializer.create / IngredientSerializer.create:
\* objects.create(name=..., user=request.user).
AttrInsert(table, id, u, name) == Put(table, id, [user |-> u, name |-> name])

\* ModelSerializer.update: the name is set when the payload has one.
AttrRename(table, id, payload) ==
    IF IsPresent(payload) THEN [table EXCEPT ![id].name = Val(payload)] ELSE table

ListTags(u, ap) ==
    /\ Idle
    /\ UNCHANGED <<uservars, inflight>>
    /\ LET r == [op |-> "list_tags", user |-> u, assigned_only |-> ap]
       IN  IF ~IsAuthenticated(u) THEN Respond(r, 401, <<>>)
           ELSE \E data \in AttrList(tags, recipe_tags, u, ap) : Respond(r, 200, data)
    /\ UNCHANGED dbvars

RetrieveTag(u, id) ==
    /\ Idle
    /\ UNCHANGED <<uservars, inflight>>
    /\ LET r == [op |-> "retrieve_tag", user |-> u, id |-> id]
       IN  IF ~IsAuthenticated(u) THEN Respond(r, 401, <<>>)
           ELSE IF AttrVisible(tags, recipe_tags, u, id) THEN Respond(r, 200, <<id>>)
           ELSE Respond(r, 404, <<>>)
    /\ UNCHANGED dbvars

CreateTag(u, payload) ==
    /\ Idle
    /\ UNCHANGED <<uservars, inflight>>
    /\ LET r == [op |-> "create_tag", user |-> u, payload |-> payload]
       IN  IF ~IsAuthenticated(u)
           THEN Respond(r, 401, <<>>) /\ UNCHANGED dbvars
           ELSE IF ~IsPresent(payload)
           THEN Respond(r, 400, <<>>) /\ UNCHANGED dbvars
           ELSE /\ Inserted(DB) < MaxRecords
                /\ tags' = AttrInsert(tags, seq.tag + 1, u, Val(payload))
                /\ seq' = [seq EXCEPT !.tag = @ + 1]
                /\ Respond(r, 201, <<seq.tag + 1>>)
                /\ UNCHANGED <<recipes, ingredients, recipe_tags, recipe_ingredients>>

UpdateTag(u, id, partial, payload) ==
    /\ Idle
    /\ UNCHANGED <<uservars, inflight>>
    /\ LET r == [op |-> "update_tag", user |-> u, id |-> id,
                 partial |-> partial, payload |-> payload]
       IN  IF ~IsAuthenticated(u)
           THEN Respond(r, 401, <<>>) /\ UNCHANGED dbvars
           ELSE IF ~AttrVisible(tags, recipe_tags, u, id)
           THEN Respond(r, 404, <<>>) /\ UNCHANGED dbvars
           ELSE IF ~partial /\ ~IsPresent(payload)
           THEN Respond(r, 400, <<>>) /\ UNCHANGED dbvars
           ELSE /\ tags' = AttrRename(tags, id, payload)
                /\ Respond(r, 200, <<id>>)
                /\ UNCHANGED <<recipes, ingredients, recipe_tags, recipe_ingredients, seq>>

\* Deleting a tag deletes its rows of the link table.
DestroyTag(u, id) ==
    /\ Idle
    /\ UNCHANGED <<uservars, inflight>>
    /\ LET r == [op |-> "destroy_tag", user |-> u, id |-> id]
       IN  IF ~IsAuthenticated(u)
           THEN Respond(r, 401, <<>>) /\ UNCHANGED dbvars
           ELSE IF ~AttrVisible(tags, recipe_tags, u, id)
           THEN Respond(r, 404, <<>>) /\ UNCHANGED dbvars
           ELSE /\ tags' = Drop(tags, id)
                /\ recipe_tags' = {l \in recipe_tags : l[2] # id}
                /\ Respond(r, 204, <<>>)
                /\ UNCHANGED <<recipes, ingredients, recipe_ingredients, seq>>

ListIngredients(u, ap) ==
    /\ Idle
    /\ UNCHANGED <<uservars, inflight>>
    /\ LET r == [op |-> "list_ingredients", user |-> u, assigned_only |-> ap]
       IN  IF ~IsAuthenticated(u) THEN Respond(r, 401, <<>>)
           ELSE \E data \in AttrList(ingredients, recipe_ingredients, u, ap) : Respond(r, 200, data)
    /\ UNCHANGED dbvars

RetrieveIngredient(u, id) ==
    /\ Idle
    /\ UNCHANGED <<uservars, inflight>>
    /\ LET r == [op |-> "retrieve_ingredient", user |-> u, id |-> id]
       IN  IF ~IsAuthenticated(u) THEN Respond(r, 401, <<>>)
           ELSE IF AttrVisible(ingredients, recipe_ingredients, u, id) THEN Respond(r, 200, <<id>>)
           ELSE Respond(r, 404, <<>>)
    /\ UNCHANGED dbvars

CreateIngredient(u, payload) ==
    /\ Idle
    /\ UNCHANGED <<uservars, inflight>>
    /\ LET r == [op |-> "create_ingredient", user |-> u, payload |-> payload]
       IN  IF ~IsAuthenticated(u)
           THEN Respond(r, 401, <<>>) /\ UNCHANGED dbvars
           ELSE IF ~IsPresent(payload)
           THEN Respond(r, 400, <<>>) /\ UNCHANGED dbvars
           ELSE /\ Inserted(DB) < MaxRecords
                /\ ingredients' = AttrInsert(ingredients, seq.ingredient + 1, u, Val(payload))
                /\ seq' = [seq EXCEPT !.ingredient = @ + 1]
                /\ Respond(r, 201, <<seq.ingredient + 1>>)
                /\ UNCHANGED <<recipes, tags, recipe_tags, recipe_ingredients>>

UpdateIngredient(u, id, partial, payload) ==
    /\ Idle
    /\ UNCHANGED <<uservars, inflight>>
    /\ LET r == [op |-> "update_ingredient", user |-> u, id |-> id,
                 partial |-> partial, payload |-> payload]
       IN  IF ~IsAuthenticated(u)
           THEN Respond(r, 401, <<>>) /\ UNCHANGED dbvars
           ELSE IF ~AttrVisible(ingredients, recipe_ingredients, u, id)
           THEN Respond(r, 404, <<>>) /\ UNCHANGED dbvars
           ELSE IF ~partial /\ ~IsPresent(payload)
           THEN Respond(r, 400, <<>>) /\ UNCHANGED dbvars
           ELSE /\ ingredients' = AttrRename(ingredients, id, payload)
                /\ Respond(r, 200, <<id>>)
                /\ UNCHANGED <<recipes, tags, recipe_tags, recipe_ingredients, seq>>

DestroyIngredient(u, id) ==
    /\ Idle
    /\ UNCHANGED <<uservars, inflight>>
    /\ LET r == [op |-> "destroy_ingredient", user |-> u, id |-> id]
       IN  IF ~IsAuthenticated(u)
           THEN Respond(r, 401, <<>>) /\ UNCHANGED dbvars
           ELSE IF ~AttrVisible(ingredients, recipe_ingredients, u, id)
           THEN Respond(r, 404, <<>>) /\ UNCHANGED dbvars
           ELSE /\ ingredients' = Drop(ingredients, id)
                /\ recipe_ingredients' = {l \in recipe_ingredients : l[2] # id}
                /\ Respond(r, 204, <<>>)
                /\ UNCHANGED <<recipes, tags, recipe_tags, seq>>

Deliver ==
    /\ req # NoReq
    /\ req' = NoReq
    /\ resp' = NoResp
    /\ UNCHANGED <<dbvars, uservars, inflight>>

\* The requests of the recipe endpoints whose request.user is in callers.
RecipeRequests(callers) ==
    \/ \E u \in callers, p \in ListParams : ListRecipes(u, p[1], p[2])
    \/ \E u \in callers, id \in Ids(seq.recipe) : RetrieveRecipe(u, id)
    \/ \E u \in callers, p \in CreatePayloads : CreateRecipe(u, p)
    \/ \E u \in callers, id \in Ids(seq.recipe), i \in UpdateInputs :
          UpdateRecipe(u, id, i[1], i[2])
    \/ \E u \in callers, id \in Ids(seq.recipe) : DestroyRecipe(u, id)
    \/ \E u \in callers, id \in Ids(seq.recipe), image \in Images : UploadImage(u, id, image)

TagRequests(callers) ==
    \/ \E u \in callers, ap \in AssignedParams : ListTags(u, ap)
    \/ \E u \in callers, id \in Ids(seq.tag) : RetrieveTag(u, id)
    \/ \E u \in callers, p \in NamePayloads : CreateTag(u, p)
    \/ \E u \in callers, id \in Ids(seq.tag), i \in AttrUpdateInputs :
          UpdateTag(u, id, i[1], i[2])
    \/ \E u \in callers, id \in Ids(seq.tag) : DestroyTag(u, id)

IngredientRequests(callers) ==
    \/ \E u \in callers, ap \in AssignedParams : ListIngredients(u, ap)
    \/ \E u \in callers, id \in Ids(seq.ingredient) : RetrieveIngredient(u, id)
    \/ \E u \in callers, p \in NamePayloads : CreateIngredient(u, p)
    \/ \E u \in callers, id \in Ids(seq.ingredient), i \in AttrUpdateInputs :
          UpdateIngredient(u, id, i[1], i[2])
    \/ \E u \in callers, id \in Ids(seq.ingredient) : DestroyIngredient(u, id)

\* The requests that carry the token of a user.
RecipeRequest == RecipeRequests(Users)
TagRequest == TagRequests(Users)
IngredientRequest == IngredientRequests(Users)

Next == RecipeRequest \/ TagRequest \/ IngredientRequest \/ Deliver

Spec == Init /\ [][Next]_vars

(* --------------------------- account tables ---------------------------- *)

\* User rows ever inserted.
MaxUsers == 2

\* The primary key of the n-th user row.
UserId(n) == <<"u1", "u2", "u3">>[n]

\* An email is <<local part, domain>>; a password is its characters.
Lower == [d \in {"x.com", "X.com"} |-> "x.com"]
Emails == {<<"a", "x.com">>, <<"a", "X.com">>, <<"b", "x.com">>}
Pass1 == <<"p", "a", "s", "s", "1">>
Pass2 == <<"p", "a", "s", "s", "2">>
Passwords == {<<>>, <<"p", "w">>, <<"p", "a", "s", "s", " ">>, Pass1, Pass2, Pass1 \o <<" ">>}

\* BaseUserManager.normalize_email: the domain part in lower case.
normalize_email(email) == <<email[1], Lower[email[2]]>>

\* make_password / check_password: the stored hash of a raw password.
Hash(raw) == [hash |-> raw]
check_password(raw, stored) == stored = Hash(raw)

\* UserManager.create_user(email, password, **extra): the email is
\* normalised and the password stored hashed; the unique constraint of
\* User.email refuses a second row of the same email (IntegrityError).
create_user(us, n, email, password, name) ==
    LET e == normalize_email(email)
    IN  IF \E id \in DOMAIN us : us[id].email = e
        THEN [ok |-> FALSE, users |-> us]
        ELSE [ok |-> TRUE,
              users |-> Put(us, UserId(n + 1),
                            [email |-> e, name |-> name, password |-> Hash(password)])]

(* ------------------------- user/serializers.py -------------------------- *)

RECURSIVE LStrip(_)
LStrip(s) == IF s # <<>> /\ Head(s) = " " THEN LStrip(Tail(s)) ELSE s
RECURSIVE RStrip(_)
RStrip(s) == IF s # <<>> /\ s[Len(s)] = " " THEN RStrip(SubSeq(s, 1, Len(s) - 1)) ELSE s
\* CharField.to_internal_value with trim_whitespace (the default): str.strip().
Strip(s) == RStrip(LStrip(s))

\* UserSerializer.Meta: fields, and extra_kwargs of password.
UserFields == {"name", "email", "password"}
WriteOnlyFields_None == {}
WriteOnlyFields == {"password"}
MinPasswordLength == 5

\* serializer.data: the fields that are not write-only.
ToRepresentation(row) == [f \in UserFields \ WriteOnlyFields |-> row[f]]

PasswordErrors_NoMinLength(payload, partial) ==
    IF ~IsPresent(payload.password) THEN (IF partial THEN {} ELSE {"password"})
    ELSE IF Strip(Val(payload.password)) = <<>> THEN {"password"} ELSE {}
\* The password field: required unless the update is partial, not blank,
\* at least min_length characters once trimmed.
PasswordErrors(payload, partial) ==
    IF ~IsPresent(payload.password) THEN (IF partial THEN {} ELSE {"password"})
    ELSE IF Strip(Val(payload.password)) = <<>>
            \/ Len(Strip(Val(payload.password))) < MinPasswordLength
    THEN {"password"} ELSE {}

EmailTaken_Never(us, email, instance) == FALSE
\* UniqueValidator of the email field: a row other than the instance being
\* updated has exactly this email.
EmailTaken(us, email, instance) ==
    \E id \in DOMAIN us \ instance : us[id].email = email

\* The email field: required unless partial, and unique.
EmailErrors(us, payload, partial, instance) ==
    IF ~IsPresent(payload.email) THEN (IF partial THEN {} ELSE {"email"})
    ELSE IF EmailTaken(us, Val(payload.email), instance) THEN {"email"} ELSE {}

\* The name field: required unless partial.
NameErrors(payload, partial) ==
    IF ~IsPresent(payload.name) /\ ~partial THEN {"name"} ELSE {}

\* serializer.errors: the failing fields.
UserErrors(us, payload, partial, instance) ==
    PasswordErrors(payload, partial) \cup EmailErrors(us, payload, partial, instance)
        \cup NameErrors(payload, partial)

\* serializer.validated_data: the password trimmed.
UserValidated(payload) ==
    [payload EXCEPT !.password = IF IsPresent(@) THEN Some(Strip(Val(@))) ELSE @]

\* UserSerializer.create.
UserSerializerCreate(us, n, data) ==
    create_user(us, n, Val(data.email), Val(data.password), Val(data.name))

\* "if password: user.set_password(password)".
UserSetPassword(row, password) ==
    IF IsPresent(password) /\ Val(password) # <<>>
    THEN [row EXCEPT !.password = Hash(Val(password))] ELSE row

\* UserSerializer.update: password popped, the other keys set by
\* ModelSerializer.update, then the password.
UserSerializerUpdate(us, id, data) ==
    LET row == [us[id] EXCEPT
                  !.email = IF IsPresent(data.email) THEN Val(data.email) ELSE @,
                  !.name = IF IsPresent(data.name) THEN Val(data.name) ELSE @]
    IN  [us EXCEPT ![id] = UserSetPassword(row, data.password)]

authenticate_IgnoresPassword(us, email, password) ==
    {id \in DOMAIN us : us[id].email = email}
\* django.contrib.auth.authenticate as AuthTokenSerializer.validate calls it:
\* the users of this email whose password checks.
authenticate(us, email, password) ==
    {id \in DOMAIN us : us[id].email = email /\ check_password(password, us[id].password)}

\* AuthTokenSerializer: email and password required and not blank (the
\* password is not trimmed), then validate().
AuthTokenValid(us, payload) ==
    /\ IsPresent(payload.email)
    /\ IsPresent(payload.password)
    /\ Val(payload.password) # <<>>
    /\ authenticate(us, Val(payload.email), Val(payload.password)) # {}

\* The key of the token row of a user.
TokenKey(id) == [key |-> id]

\* TokenAuthentication: request.user of the credentials of a request.
TokenUser(tks, cred) ==
    IF IsPresent(cred) /\ Val(cred).key \in tks THEN Val(cred).key ELSE Anonymous

(* ----------------------- account endpoint requests ---------------------- *)

UserPayload(email, password, name) ==
    [email |-> email, password |-> password, name |-> name]

\* POST /user/create payloads.
CreateUserPayloads ==
    {UserPayload(e, p, n) :
        e \in {Absent} \cup {Some(x) : x \in Emails},
        p \in {Absent} \cup {Some(x) : x \in Passwords},
        n \in {Absent, Some("n1")}}

\* POST /user/token payloads.
TokenPayloads ==
    {UserPayload(e, p, Absent) :
        e \in {Absent} \cup {Some(x) : x \in Emails},
        p \in {Absent} \cup {Some(x) : x \in Passwords}}

\* PATCH (partial = TRUE) and PUT payloads of /user/me.
UpdateMeInputs ==
    ({TRUE} \X {UserPayload(e, p, n) :
                   e \in {Absent, Some(<<"b", "x.com">>), Some(<<"a", "X.com">>)},
                   p \in {Absent} \cup {Some(x) : x \in Passwords},
                   n \in {Absent, Some("n2")}})
    \cup ({FALSE} \X {UserPayload(Some(<<"b", "x.com">>), p, n) :
                         p \in {Absent, Some(<<"p", "w">>), Some(Pass2)},
                         n \in {Absent, Some("n2")}})

\* The Authorization header of a request: none, or a token key.
Credentials == {Absent} \cup {Some(TokenKey(UserId(n))) : n \in 1..MaxUsers}

\* A 400 body names the failing fields.
ErrorBody(fields) == [f \in fields |-> "invalid"]

(* --------------------------- account endpoints -------------------------- *)

\* CreateUserView (generics.CreateAPIView, open to every client).
CreateUser(payload) ==
    /\ Idle
    /\ UNCHANGED <<dbvars, tokens, inflight>>
    /\ LET r == [op |-> "create_user", payload |-> payload]
           errors == UserErrors(users, payload, FALSE, {})
       IN  IF errors # {}
           THEN Respond(r, 400, ErrorBody(errors)) /\ UNCHANGED <<users, useq>>
           ELSE LET res == UserSerializerCreate(users, useq, UserValidated(payload))
                IN  IF res.ok
                    THEN /\ useq < MaxUsers
                         /\ users' = res.users
                         /\ useq' = useq + 1
                         /\ Respond(r, 201, ToRepresentation(res.users[UserId(useq + 1)]))
                    ELSE Respond(r, 500, <<>>) /\ UNCHANGED <<users, useq>>

\* CreateTokenView (ObtainAuthToken with AuthTokenSerializer): the token of
\* the authenticated user, made on first use (Token.objects.get_or_create).
CreateToken(payload) ==
    /\ Idle
    /\ UNCHANGED <<dbvars, users, useq, inflight>>
    /\ LET r == [op |-> "create_token", payload |-> payload]
       IN  IF ~AuthTokenValid(users, payload)
           THEN Respond(r, 400, ErrorBody({"non_field_errors"})) /\ UNCHANGED tokens
           ELSE LET id == CHOOSE i \in authenticate(users, Val(payload.email),
                                                    Val(payload.password)) : TRUE
                IN  /\ tokens' = tokens \cup {id}
                    /\ Respond(r, 200, [token |-> TokenKey(id)])

\* ManageUserView (generics.RetrieveUpdateAPIView; get_object returns
\* request.user, which has the profile fields only when it is a user row): GET.
RetrieveMe(cred) ==
    /\ Idle
    /\ UNCHANGED <<dbvars, uservars, inflight>>
    /\ LET u == TokenUser(tokens, cred)
           r == [op |-> "retrieve_me", user |-> u, cred |-> cred]
       IN  IF ~IsAuthenticated(u) THEN Respond(r, 401, <<>>)
           ELSE IF u \notin DOMAIN users THEN Respond(r, 500, <<>>)
           ELSE Respond(r, 200, ToRepresentation(users[u]))

\* ManageUserView: PUT and PATCH.
UpdateMe(cred, partial, payload) ==
    /\ Idle
    /\ UNCHANGED <<dbvars, tokens, useq, inflight>>
    /\ LET u == TokenUser(tokens, cred)
           r == [op |-> "update_me", user |-> u, cred |-> cred,
                 partial |-> partial, payload |-> payload]
       IN  IF ~IsAuthenticated(u) THEN Respond(r, 401, <<>>) /\ UNCHANGED users
           ELSE IF u \notin DOMAIN users THEN Respond(r, 500, <<>>) /\ UNCHANGED users
           ELSE IF UserErrors(users, payload, partial, {u}) # {}
           THEN /\ Respond(r, 400, ErrorBody(UserErrors(users, payload, partial, {u})))
                /\ UNCHANGED users
           ELSE /\ users' = UserSerializerUpdate(users, u, UserValidated(payload))
                /\ Respond(r, 200, ToRepresentation(users'[u]))

\* ManageUserView: any other verb (POST, DELETE).
OtherVerbMe(cred) ==
    /\ Idle
    /\ UNCHANGED <<dbvars, uservars, inflight>>
    /\ LET u == TokenUser(tokens, cred)
           r == [op |-> "other_verb_me", user |-> u, cred |-> cred]
       IN  IF ~IsAuthenticated(u) THEN Respond(r, 401, <<>>)
           ELSE Respond(r, 405, <<>>)

UserRequest ==
    \/ \E p \in CreateUserPayloads : CreateUser(p)
    \/ \E p \in TokenPayloads : CreateToken(p)
    \/ \E c \in Credentials : RetrieveMe(c)
    \/ \E c \in Credentials, i \in UpdateMeInputs : UpdateMe(c, i[1], i[2])
    \/ \E c \in Credentials : OtherVerbMe(c)

UserNext == UserRequest \/ Deliver

UserSpec == Init /\ [][UserNext]_vars

(* ------------------ requests without valid credentials ------------------ *)

\* /user/me requests whose Authorization header is missing or names no token.
AnonymousMe ==
    \E c \in Credentials :
        /\ TokenUser(tokens, c) = Anonymous
        /\ \/ RetrieveMe(c)
           \/ \E i \in UpdateMeInputs : UpdateMe(c, i[1], i[2])
           \/ OtherVerbMe(c)

\* The requests of token holders that fill the tables.
SetupRequest ==
    \/ \E u \in Users :
          CreateRecipe(u, Payload(Some("t1"), Absent, Some(<<"a">>), Absent))
    \/ \E u \in Users : CreateTag(u, Some("b"))
    \/ \E u \in Users : CreateIngredient(u, Some("b"))
    \/ CreateUser(UserPayload(Some(<<"a", "x.com">>), Some(Pass1), Some("n1")))

AuthNext ==
    \/ RecipeRequests({Anonymous})
    \/ TagRequests({Anonymous})
    \/ IngredientRequests({Anonymous})
    \/ AnonymousMe
    \/ SetupRequest
    \/ Deliver

AuthSpec == Init /\ [][AuthNext]_vars

(* ------------- recipe writes run step by step, interleaved -------------- *)

\* Requests the server takes in a run; request p is handled by worker p.
MaxRequests == 3
Procs == 1..MaxRequests

\* Nested tag lists of the interleaved requests.
RaceTagLists == {<<>>, <<"a">>, <<"a", "b">>}

\* The worker of the next request.
NextProc == Cardinality(DOMAIN inflight) + 1

\* A request at statement pc of RecipeSerializer.create / update: tagNames
\* is the tags list of the payload, todo the tags still to resolve, obj the
\* Tag the current get_or_create resolved to.
Worker(op, u, recipe, tagNames) ==
    [op |-> op, user |-> u, recipe |-> recipe, tagNames |-> tagNames,
     todo |-> tagNames, obj |-> 0,
     pc |-> IF tagNames = <<>> THEN "done" ELSE "lookup"]

\* RecipeSerializer.create up to the tag loop: Recipe.objects.create(...).
BeginCreate(u, title, tagNames) ==
    /\ NextProc \in Procs
    /\ recipes' = Put(recipes, seq.recipe + 1, [user |-> u, title |-> title, image |-> ""])
    /\ seq' = [seq EXCEPT !.recipe = @ + 1]
    /\ inflight' = Put(inflight, NextProc, Worker("create", u, seq.recipe + 1, tagNames))
    /\ UNCHANGED <<tags, recipe_tags, ingredients, recipe_ingredients, req, resp, uservars>>

\* RecipeSerializer.update (PATCH with a tags key) up to the tag loop:
\* get_object(), then instance.tags.clear().
BeginUpdate(u, id, tagNames) ==
    /\ NextProc \in Procs
    /\ RecipeVisible(DB, u, id)
    /\ recipe_tags' = ClearTags(DB, id).recipe_tags
    /\ inflight' = Put(inflight, NextProc, Worker("update", u, id, tagNames))
    /\ UNCHANGED <<recipes, tags, seq, ingredients, recipe_ingredients, req, resp, uservars>>

\* get_or_create, first statement: the lookup self.get(user=auth_user, name=...).
Lookup(p) ==
    /\ p \in DOMAIN inflight
    /\ inflight[p].pc = "lookup"
    /\ LET found == Matching(tags, inflight[p].user, Head(inflight[p].todo))
       IN  inflight' =
              [inflight EXCEPT ![p] =
                  IF Cardinality(found) > 1 THEN [@ EXCEPT !.pc = "failed"]
                  ELSE IF found = {} THEN [@ EXCEPT !.pc = "insert"]
                  ELSE [@ EXCEPT !.pc = "link", !.obj = CHOOSE t \in found : TRUE]]
    /\ UNCHANGED <<dbvars, req, resp, uservars>>

\* get_or_create, after DoesNotExist: self.create(user=auth_user, name=...).
Insert(p) ==
    /\ p \in DOMAIN inflight
    /\ inflight[p].pc = "insert"
    /\ tags' = Put(tags, seq.tag + 1,
                   [user |-> inflight[p].user, name |-> Head(inflight[p].todo)])
    /\ seq' = [seq EXCEPT !.tag = @ + 1]
    /\ inflight' = [inflight EXCEPT ![p].pc = "link", ![p].obj = seq.tag + 1]
    /\ UNCHANGED <<recipes, recipe_tags, ingredients, recipe_ingredients, req, resp, uservars>>

\* recipe.tags.add(tag_obj), then the next tag of the loop.
Link(p) ==
    /\ p \in DOMAIN inflight
    /\ inflight[p].pc = "link"
    /\ recipe_tags' = recipe_tags \cup {<<inflight[p].recipe, inflight[p].obj>>}
    /\ inflight' = [inflight EXCEPT
                      ![p].todo = Tail(@),
                      ![p].pc = IF Tail(inflight[p].todo) = <<>> THEN "done" ELSE "lookup"]
    /\ UNCHANGED <<recipes, tags, seq, ingredients, recipe_ingredients, req, resp, uservars>>

RaceNext ==
    \/ \E u \in Users, l \in RaceTagLists : BeginCreate(u, "t1", l)
    \/ \E u \in Users, id \in Ids(seq.recipe), l \in RaceTagLists : BeginUpdate(u, id, l)
    \/ \E p \in Procs : Lookup(p)
    \/ \E p \in Procs : Insert(p)
    \/ \E p \in Procs : Link(p)

RaceSpec == Init /\ [][RaceNext]_vars

(* ------------------------------- claims -------------------------------- *)

RespIds == {resp.data[i] : i \in 1..Len(resp.data)}

\* C1: a list or retrieve request by user U on recipes, tags or ingredients
\* returns only records owned by U, and retrieving a record that exists and
\* belongs to another user is answered 404.
C1_OnlyOwnRecords ==
    /\ req.op \in {"list_recipes", "retrieve_recipe"} /\ resp.status = 200 =>
          \A id \in RespIds : id \in DOMAIN recipes /\ recipes[id].user = req.user
    /\ req.op \in {"list_tags", "retrieve_tag"} /\ resp.status = 200 =>
          \A id \in RespIds : id \in DOMAIN tags /\ tags[id].user = req.user
    /\ req.op \in {"list_ingredients", "retrieve_ingredient"} /\ resp.status = 200 =>
          \A id \in RespIds : id \in DOMAIN ingredients /\ ingredients[id].user = req.user
    /\ req.op = "retrieve_recipe" /\ req.id \in DOMAIN recipes
          /\ recipes[req.id].user # req.user => resp.status = 404
    /\ req.op = "retrieve_tag" /\ req.id \in DOMAIN tags
          /\ tags[req.id].user # req.user => resp.status = 404
    /\ req.op = "retrieve_ingredient" /\ req.id \in DOMAIN ingredients
          /\ ingredients[req.id].user # req.user => resp.status = 404

\* A list answered with the requester's recipe while another user's recipe exists.
C1_Witness ==
    /\ req.op = "list_recipes"
    /\ resp.status = 200
    /\ resp.data # <<>>
    /\ \E id \in DOMAIN recipes : recipes[id].user # req.user

\* C2: a delete, update (PUT or PATCH) or image upload aimed at a recipe that
\* belongs to another user is answered 404 and changes nothing in the database.
C2_ForeignRecipeUntouched ==
    [][(/\ req'.op \in {"destroy_recipe", "update_recipe", "upload_image"}
        /\ req'.id \in DOMAIN recipes
        /\ recipes[req'.id].user # req'.user)
       => (resp'.status = 404 /\ UNCHANGED dbvars)]_vars

\* A PATCH carrying a title and one carrying tags, refused on another user's recipe.
C2_Witness ==
    /\ req.op = "update_recipe"
    /\ resp.status = 404
    /\ req.id \in DOMAIN recipes
    /\ recipes[req.id].user # req.user
    /\ IsPresent(req.payload.tags)

\* C3: creating a recipe with nested tags (ingredients) never duplicates a
\* record: no create request adds a record of a name the requester already
\* owns, and when the recipe is created (201) every name of the payload that
\* the requester owned is linked through the record that existed, and every
\* name the requester did not own has exactly one new record, owned by the
\* requester.
C3_Item(table, tableAfter, linksAfter, u, new, names, status) ==
    \A n \in names :
        LET before == Matching(table, u, n)
            after  == Matching(tableAfter, u, n)
        IN  /\ before # {} => after = before
            /\ status = 201 /\ before # {} =>
                  \E t \in before : t \in LinkedTo(linksAfter, new) /\ tableAfter[t] = table[t]
            /\ status = 201 /\ before = {} =>
                  /\ Cardinality(after) = 1
                  /\ after \cap DOMAIN table = {}
                  /\ after \subseteq LinkedTo(linksAfter, new)

C3_CreateNeverDuplicates ==
    [][req'.op = "create_recipe" /\ resp'.status # 400 =>
          /\ C3_Item(tags, tags', recipe_tags', req'.user, seq'.recipe,
                     NamesOf(ListOf(req'.payload.tags)), resp'.status)
          /\ C3_Item(ingredients, ingredients', recipe_ingredients', req'.user, seq'.recipe,
                     NamesOf(ListOf(req'.payload.ingredients)), resp'.status)]_vars

\* A recipe created with tags a and b by a user who owned a tag a and no tag b:
\* still one tag a, and one tag b.
C3_Witness ==
    /\ req.op = "create_recipe"
    /\ resp.status = 201
    /\ req.payload.tags = Some(<<"a", "b">>)
    /\ \E t \in Matching(tags, req.user, "a") : t < seq.tag
    /\ Cardinality(Matching(tags, req.user, "a")) = 1
    /\ Cardinality(Matching(tags, req.user, "b")) = 1

\* C4: after a successful create with nested list L the new recipe's tag
\* (ingredient) set holds exactly one record per distinct name of L, each
\* owned by the requester, and nothing else; no list, no items.
C4_Set(table, links, u, new, names) ==
    /\ \A t \in LinkedTo(links, new) :
          t \in DOMAIN table /\ table[t].user = u /\ table[t].name \in names
    /\ \A n \in names :
          Cardinality({t \in LinkedTo(links, new) : table[t].name = n}) = 1
    /\ Cardinality(LinkedTo(links, new)) = Cardinality(names)

C4_CreatedSetIsPayload ==
    req.op = "create_recipe" /\ resp.status = 201 =>
        /\ resp.data[1] \in DOMAIN recipes
        /\ C4_Set(tags, recipe_tags, req.user, resp.data[1],
                  NamesOf(ListOf(req.payload.tags)))
        /\ C4_Set(ingredients, recipe_ingredients, req.user, resp.data[1],
                  NamesOf(ListOf(req.payload.ingredients)))

\* A recipe created with the name a given twice has one tag.
C4_Witness ==
    /\ req.op = "create_recipe"
    /\ resp.status = 201
    /\ req.payload.tags = Some(<<"a", "a">>)
    /\ Cardinality(LinkedTo(recipe_tags, resp.data[1])) = 1

\* C5: a successful update (PUT or PATCH) that supplies a list L replaces the
\* association set: afterwards the recipe's items are exactly the
\* requester's records named in L, an item linked before whose name is not
\* in L is linked no more, and a name the requester did not own has a new
\* record.
C5_Replaced(table, tableAfter, links, linksAfter, u, id, names) ==
    /\ LinkedTo(linksAfter, id) =
          {t \in DOMAIN tableAfter : tableAfter[t].user = u /\ tableAfter[t].name \in names}
    /\ \A t \in LinkedTo(links, id) :
          table[t].name \notin names => t \notin LinkedTo(linksAfter, id)
    /\ \A n \in names :
          Matching(table, u, n) = {} => Cardinality(Matching(tableAfter, u, n)) = 1

C5_UpdateReplacesSet ==
    [][req'.op = "update_recipe" /\ resp'.status = 200 =>
          /\ IsPresent(req'.payload.tags) =>
                C5_Replaced(tags, tags', recipe_tags, recipe_tags', req'.user, req'.id,
                            NamesOf(Val(req'.payload.tags)))
          /\ IsPresent(req'.payload.ingredients) =>
                C5_Replaced(ingredients, ingredients', recipe_ingredients,
                            recipe_ingredients', req'.user, req'.id,
                            NamesOf(Val(req'.payload.ingredients)))]_vars

\* An update to tags [b] of a recipe whose owner also has a tag a: only b is linked.
C5_Witness ==
    /\ req.op = "update_recipe"
    /\ resp.status = 200
    /\ req.payload.tags = Some(<<"b">>)
    /\ Matching(tags, req.user, "a") # {}
    /\ LinkedTo(recipe_tags, req.id) = Matching(tags, req.user, "b")
    /\ Cardinality(LinkedTo(recipe_tags, req.id)) = 1

\* C6: an update (PUT or PATCH) of an existing recipe without a tags key
\* leaves the recipe's tag set as it was, one without an ingredients key
\* leaves its ingredient set as it was, and a partial update keeps the
\* scalar fields it does not carry (the title when absent, the image always).
C6_AbsentKeysKeep ==
    [][req'.op = "update_recipe" /\ req'.id \in DOMAIN recipes =>
          /\ req'.id \in DOMAIN recipes'
          /\ ~IsPresent(req'.payload.tags) =>
                LinkedTo(recipe_tags', req'.id) = LinkedTo(recipe_tags, req'.id)
          /\ ~IsPresent(req'.payload.ingredients) =>
                LinkedTo(recipe_ingredients', req'.id)
                    = LinkedTo(recipe_ingredients, req'.id)
          /\ req'.partial /\ ~IsPresent(req'.payload.title) =>
                recipes'[req'.id].title = recipes[req'.id].title
          /\ req'.partial => recipes'[req'.id].image = recipes[req'.id].image]_vars

\* A PATCH of the ingredients alone, on a recipe that has a tag: the tag stays.
C6_Witness ==
    /\ req.op = "update_recipe"
    /\ resp.status = 200
    /\ req.partial
    /\ ~IsPresent(req.payload.tags)
    /\ req.payload.ingredients = Some(<<"a">>)
    /\ LinkedTo(recipe_tags, req.id) # {}
    /\ LinkedTo(recipe_ingredients, req.id) # {}

\* C7: an update with tags (ingredients) set to the empty list leaves the
\* recipe without tag (ingredient) links, deletes no Tag (Ingredient) record
\* and leaves the links of the other recipes as they were.
C7_Cleared(table, tableAfter, links, linksAfter, id) ==
    /\ LinkedTo(linksAfter, id) = {}
    /\ \A t \in DOMAIN table : t \in DOMAIN tableAfter /\ tableAfter[t] = table[t]
    /\ \A r \in DOMAIN recipes \ {id} : LinkedTo(linksAfter, r) = LinkedTo(links, r)

C7_EmptyListClears ==
    [][req'.op = "update_recipe" /\ resp'.status = 200 =>
          /\ req'.payload.tags = Some(<<>>) =>
                C7_Cleared(tags, tags', recipe_tags, recipe_tags', req'.id)
          /\ req'.payload.ingredients = Some(<<>>) =>
                C7_Cleared(ingredients, ingredients', recipe_ingredients,
                           recipe_ingredients', req'.id)]_vars

\* Tags patched to [] on one recipe while another recipe still has its tag.
C7_Witness ==
    /\ req.op = "update_recipe"
    /\ resp.status = 200
    /\ req.payload.tags = Some(<<>>)
    /\ LinkedTo(recipe_tags, req.id) = {}
    /\ \E r \in DOMAIN recipes, t \in DOMAIN tags :
          r # req.id /\ <<r, t>> \in recipe_tags /\ tags[t].user = req.user

\* C8: the owner of a recipe is the user who issued the create request,
\* whatever user value the payload carries, and no request changes it.
C8_OwnerIsCreator ==
    [][/\ \A id \in DOMAIN recipes \cap DOMAIN recipes' :
             recipes'[id].user = recipes[id].user
       /\ \A id \in DOMAIN recipes' \ DOMAIN recipes :
             req'.op = "create_recipe" /\ recipes'[id].user = req'.user]_vars

\* A PATCH carrying another user as user, answered 200: the owner is the requester.
C8_Witness ==
    /\ req.op = "update_recipe"
    /\ resp.status = 200
    /\ IsPresent(req.payload.user)
    /\ Val(req.payload.user) # req.user
    /\ recipes[req.id].user = req.user

\* C9: a tag (ingredient) list with assigned_only=1 holds the requester's
\* items that are linked to at least one recipe, each of them once.
C9_List(table, links) ==
    /\ RespIds = {t \in DOMAIN table :
                     table[t].user = req.user /\ \E l \in links : l[2] = t}
    /\ Len(resp.data) = Cardinality(RespIds)

C9_AssignedOnly ==
    /\ req.op = "list_tags" /\ req.assigned_only = <<"1">> =>
          resp.status = 200 /\ C9_List(tags, recipe_tags)
    /\ req.op = "list_ingredients" /\ req.assigned_only = <<"1">> =>
          resp.status = 200 /\ C9_List(ingredients, recipe_ingredients)

\* A tag linked to two recipes is listed once.
C9_Witness ==
    /\ req.op = "list_tags"
    /\ req.assigned_only = <<"1">>
    /\ Len(resp.data) = 1
    /\ Cardinality({l \in recipe_tags : l[2] = resp.data[1]}) = 2

\* C10: a recipe list with a tags parameter T and/or an ingredients
\* parameter I (lists of ids) holds the requester's recipes that have a tag
\* of T (and an ingredient of I when both are given), each of them once.
IsIdList(param) == param # <<>> /\ \A i \in 1..Len(param) : param[i] \in {"1", "2", "3"}
IdsOf(param) ==
    {n \in 1..3 : \E i \in 1..Len(param) : param[i] = <<"1", "2", "3">>[n]}

C10_FilterByIds ==
    req.op = "list_recipes"
        /\ (IsIdList(req.tags) \/ IsIdList(req.ingredients))
        /\ (IsIdList(req.tags) \/ req.tags = <<>>)
        /\ (IsIdList(req.ingredients) \/ req.ingredients = <<>>) =>
        /\ resp.status = 200
        /\ RespIds =
              {r \in DOMAIN recipes :
                  /\ recipes[r].user = req.user
                  /\ IsIdList(req.tags) =>
                        LinkedTo(recipe_tags, r) \cap IdsOf(req.tags) # {}
                  /\ IsIdList(req.ingredients) =>
                        LinkedTo(recipe_ingredients, r) \cap IdsOf(req.ingredients) # {}}
        /\ Len(resp.data) = Cardinality(RespIds)

\* A recipe carrying both tags of the filter is listed once.
C10_Witness ==
    /\ req.op = "list_recipes"
    /\ req.tags = <<"1", "2">>
    /\ Len(resp.data) = 1
    /\ {1, 2} \subseteq LinkedTo(recipe_tags, resp.data[1])

\* C11: a recipe list response is in strictly descending order of id, a tag
\* or ingredient list response is in descending order of name, whatever the
\* filter parameters, and no list response holds a record twice.
C11_NameDesc(table) ==
    /\ \A i, j \in 1..Len(resp.data) :
          i < j => NameRank[table[resp.data[i]].name] >= NameRank[table[resp.data[j]].name]
    /\ \A i, j \in 1..Len(resp.data) : i # j => resp.data[i] # resp.data[j]

C11_ListsOrdered ==
    /\ req.op = "list_recipes" /\ resp.status = 200 =>
          \A i, j \in 1..Len(resp.data) : i < j => resp.data[i] > resp.data[j]
    /\ req.op = "list_tags" => resp.status = 200 /\ C11_NameDesc(tags)
    /\ req.op = "list_ingredients" => resp.status = 200 /\ C11_NameDesc(ingredients)

\* Two recipes that both carry a tag of the filter, listed newest first.
C11_Witness ==
    /\ req.op = "list_recipes"
    /\ req.tags = <<"1", "2">>
    /\ Len(resp.data) = 2
    /\ resp.data[1] > resp.data[2]

\* C12: a request to a recipe, tag, ingredient or own-profile endpoint that
\* carries no valid credentials is answered 401 and changes no record.
ProtectedOps ==
    {"list_recipes", "retrieve_recipe", "create_recipe", "update_recipe",
     "destroy_recipe", "upload_image",
     "list_tags", "retrieve_tag", "create_tag", "update_tag", "destroy_tag",
     "list_ingredients", "retrieve_ingredient", "create_ingredient",
     "update_ingredient", "destroy_ingredient",
     "retrieve_me", "update_me", "other_verb_me"}

C12_Unauthenticated401 ==
    [][req'.op \in ProtectedOps /\ req'.user = Anonymous =>
          /\ resp'.status = 401
          /\ resp'.data = <<>>
          /\ UNCHANGED <<dbvars, uservars>>]_vars

\* A DELETE without credentials on a recipe that exists: 401, the recipe stays.
C12_Witness ==
    /\ req.op = "destroy_recipe"
    /\ req.user = Anonymous
    /\ resp.status = 401
    /\ req.id \in DOMAIN recipes
    /\ users # <<>>

\* C13 as stated: a create-account request whose password has fewer than 5
\* characters is answered 400 and no user with the submitted email exists
\* afterwards; a profile update with such a password is answered 400 and
\* leaves the stored password as it was.
ShortPassword(payload) ==
    IsPresent(payload.password) /\ Len(Val(payload.password)) < MinPasswordLength

C13_Original ==
    [][/\ req'.op = "create_user" /\ ShortPassword(req'.payload) =>
             /\ resp'.status = 400
             /\ IsPresent(req'.payload.email) =>
                   \A id \in DOMAIN users' : users'[id].email # Val(req'.payload.email)
       /\ req'.op = "update_me" /\ req'.user # Anonymous /\ ShortPassword(req'.payload) =>
             /\ resp'.status = 400
             /\ users'[req'.user].password = users[req'.user].password]_vars

\* C13 (amended): a create-account request whose password has fewer than 5
\* characters is answered 400 naming the password field and creates no user:
\* the user table is as before, so a user with the submitted email exists
\* afterwards only if one existed before.  A profile update with such a
\* password is answered 400 and leaves the stored password, and the rest of
\* the user table, as it was.
C13_ShortPasswordRejected ==
    [][/\ req'.op = "create_user" /\ ShortPassword(req'.payload) =>
             /\ resp'.status = 400
             /\ "password" \in DOMAIN resp'.data
             /\ UNCHANGED uservars
       /\ req'.op = "update_me" /\ req'.user # Anonymous /\ ShortPassword(req'.payload) =>
             /\ resp'.status = 400
             /\ "password" \in DOMAIN resp'.data
             /\ UNCHANGED uservars]_vars

\* A PATCH of /user/me with a two-character password and a new name, refused:
\* the old password still checks and the name is the old one.
C13_Witness ==
    /\ req.op = "update_me"
    /\ req.user # Anonymous
    /\ req.payload.password = Some(<<"p", "w">>)
    /\ req.payload.name = Some("n2")
    /\ resp.status = 400
    /\ check_password(Pass1, users[req.user].password)
    /\ users[req.user].name = "n1"

\* C14: no response of the create-account, retrieve-profile or
\* update-profile operations contains the password: a success body has
\* exactly the keys name and email, with the stored values, and any other
\* body holds only the messages of the failing fields.
C14_Body(id) ==
    /\ DOMAIN resp.data = {"name", "email"}
    /\ resp.data.name = users[id].name
    /\ resp.data.email = users[id].email

C14_PasswordNeverEchoed ==
    req.op \in {"create_user", "retrieve_me", "update_me"} =>
        /\ resp.status \in {200, 201, 400, 401, 500}
        /\ resp.status = 201 => req.op = "create_user" /\ C14_Body(UserId(useq))
        /\ resp.status = 200 => req.op # "create_user" /\ C14_Body(req.user)
        /\ resp.status \notin {200, 201} =>
              \A f \in DOMAIN resp.data : resp.data[f] = "invalid"

\* A profile update that carried a password, answered with name and email.
C14_Witness ==
    /\ req.op = "update_me"
    /\ req.payload.password = Some(Pass2)
    /\ resp.status = 200
    /\ DOMAIN resp.data = {"name", "email"}
    /\ check_password(Pass2, users[req.user].password)

\* C15: a create-account request whose email is the email of an existing
\* user is answered 400 and creates no user, and after every request no two
\* users have the same email.
C15_DuplicateEmailRejected ==
    [][/\ (/\ req'.op = "create_user"
           /\ IsPresent(req'.payload.email)
           /\ \E id \in DOMAIN users : users[id].email = Val(req'.payload.email))
          => /\ resp'.status = 400
             /\ "email" \in DOMAIN resp'.data
             /\ UNCHANGED uservars
       /\ \A i, j \in DOMAIN users' : i # j => users'[i].email # users'[j].email]_vars

\* A second account asked for with the email of the first, refused, while
\* another account could still be made.
C15_Witness ==
    /\ req.op = "create_user"
    /\ req.payload = UserPayload(Some(<<"a", "x.com">>), Some(Pass2), Some("n1"))
    /\ resp.status = 400
    /\ DOMAIN resp.data = {"email"}
    /\ \E id \in DOMAIN users : users[id].email = <<"a", "x.com">>
    /\ Cardinality(DOMAIN users) = 1

\* C16: the issue-token operation answers 200 with the token of a user
\* exactly when a user has the submitted email and the submitted password
\* checks against that user's stored password; otherwise (wrong or blank
\* password, unknown email, a missing field) it answers 400 without a token.
C16_Authenticates(payload) ==
    /\ IsPresent(payload.email)
    /\ IsPresent(payload.password)
    /\ \E id \in DOMAIN users :
          /\ users[id].email = Val(payload.email)
          /\ users[id].password = Hash(Val(payload.password))

C16_TokenIffAuthenticated ==
    req.op = "create_token" =>
        /\ resp.status = 200 <=> C16_Authenticates(req.payload)
        /\ resp.status = 200 =>
              /\ DOMAIN resp.data = {"token"}
              /\ resp.data.token.key \in tokens
              /\ users[resp.data.token.key].email = Val(req.payload.email)
        /\ resp.status # 200 => resp.status = 400 /\ "token" \notin DOMAIN resp.data

\* A token issued to the second of two users.
C16_Witness ==
    /\ req.op = "create_token"
    /\ resp.status = 200
    /\ resp.data.token = TokenKey(UserId(2))
    /\ Cardinality(DOMAIN users) = 2

\* C17: a successful profile update that supplies a password makes that
\* password the user's credential (it checks afterwards, and a password that
\* checked before and is not the supplied one checks no more); one that
\* supplies no password leaves the stored credential as it was; in both cases
\* the name and email supplied are stored, and no other user row, no token
\* and no recipe record changes.
C17_ProfileUpdate ==
    [][req'.op = "update_me" /\ resp'.status = 200 =>
          LET u == req'.user
              p == req'.payload
          IN  /\ IsPresent(p.password) =>
                    /\ check_password(Val(p.password), users'[u].password)
                    /\ \A raw \in Passwords :
                          check_password(raw, users[u].password) /\ raw # Val(p.password)
                              => ~check_password(raw, users'[u].password)
              /\ ~IsPresent(p.password) => users'[u].password = users[u].password
              /\ IsPresent(p.name) => users'[u].name = Val(p.name)
              /\ ~IsPresent(p.name) => users'[u].name = users[u].name
              /\ IsPresent(p.email) => users'[u].email = Val(p.email)
              /\ ~IsPresent(p.email) => users'[u].email = users[u].email
              /\ DOMAIN users' = DOMAIN users
              /\ \A id \in DOMAIN users \ {u} : users'[id] = users[id]
              /\ UNCHANGED <<dbvars, tokens, useq>>]_vars

\* C18: an image upload to the requester's own recipe is answered 200 and
\* stores the image when the image field is a valid image; when the field is
\* missing or does not decode it is answered 400 and the recipe's image and
\* every other field and record are as before.
C18_UploadImage ==
    [][(/\ req'.op = "upload_image"
        /\ req'.id \in DOMAIN recipes
        /\ recipes[req'.id].user = req'.user) =>
          /\ req'.image = "jpeg" =>
                /\ resp'.status = 200
                /\ resp'.data = <<req'.id>>
                /\ recipes' = [recipes EXCEPT ![req'.id].image = "uploads/recipe"]
                /\ UNCHANGED <<tags, ingredients, recipe_tags, recipe_ingredients>>
          /\ req'.image # "jpeg" =>
                /\ resp'.status = 400
                /\ UNCHANGED dbvars]_vars

\* An upload that does not decode, refused on a recipe that has an image
\* from an earlier upload: the image stays.
C18_Witness ==
    /\ req.op = "upload_image"
    /\ req.image = "notanimage"
    /\ resp.status = 400
    /\ recipes[req.id].user = req.user
    /\ recipes[req.id].image = "uploads/recipe"

\* C19: deleting one's own recipe, tag or ingredient is answered 204 and
\* removes exactly that record: every other record of the kind is as before,
\* the records of the other kinds are as before (a deleted recipe takes none
\* of its tags or ingredients with it), the links of the other records stay,
\* a deleted id never comes back, and no list or retrieve answers with an id
\* that is not in the table.
C19_Removed(table, tableAfter, id) ==
    /\ DOMAIN tableAfter = DOMAIN table \ {id}
    /\ \A x \in DOMAIN tableAfter : tableAfter[x] = table[x]

C19_Gone(table, tableAfter, last) ==
    \A id \in 1..last : id \notin DOMAIN table => id \notin DOMAIN tableAfter

C19_DeleteRemovesOne ==
    [][/\ (/\ req'.op = "destroy_recipe" /\ req'.id \in DOMAIN recipes
           /\ recipes[req'.id].user = req'.user) =>
             /\ resp'.status = 204
             /\ C19_Removed(recipes, recipes', req'.id)
             /\ tags' = tags /\ ingredients' = ingredients
             /\ recipe_tags' = {l \in recipe_tags : l[1] # req'.id}
             /\ recipe_ingredients' = {l \in recipe_ingredients : l[1] # req'.id}
       /\ (/\ req'.op = "destroy_tag" /\ req'.id \in DOMAIN tags
           /\ tags[req'.id].user = req'.user) =>
             /\ resp'.status = 204
             /\ C19_Removed(tags, tags', req'.id)
             /\ recipes' = recipes /\ ingredients' = ingredients
             /\ recipe_tags' = {l \in recipe_tags : l[2] # req'.id}
             /\ recipe_ingredients' = recipe_ingredients
       /\ (/\ req'.op = "destroy_ingredient" /\ req'.id \in DOMAIN ingredients
           /\ ingredients[req'.id].user = req'.user) =>
             /\ resp'.status = 204
             /\ C19_Removed(ingredients, ingredients', req'.id)
             /\ recipes' = recipes /\ tags' = tags
             /\ recipe_ingredients' = {l \in recipe_ingredients : l[2] # req'.id}
             /\ recipe_tags' = recipe_tags
       /\ C19_Gone(recipes, recipes', seq.recipe)
       /\ C19_Gone(tags, tags', seq.tag)
       /\ C19_Gone(ingredients, ingredients', seq.ingredient)
       /\ req'.op \in {"list_recipes", "retrieve_recipe"} /\ resp'.status = 200 =>
             \A i \in 1..Len(resp'.data) : resp'.data[i] \in DOMAIN recipes'
       /\ req'.op \in {"list_tags", "retrieve_tag"} /\ resp'.status = 200 =>
             \A i \in 1..Len(resp'.data) : resp'.data[i] \in DOMAIN tags'
       /\ req'.op \in {"list_ingredients", "retrieve_ingredient"} /\ resp'.status = 200 =>
             \A i \in 1..Len(resp'.data) : resp'.data[i] \in DOMAIN ingredients'
       /\ req'.op = "retrieve_recipe" /\ req'.id \notin DOMAIN recipes' => resp'.status = 404
       /\ req'.op = "retrieve_tag" /\ req'.id \notin DOMAIN tags' => resp'.status = 404
       /\ req'.op = "retrieve_ingredient" /\ req'.id \notin DOMAIN ingredients'
             => resp'.status = 404]_vars

\* A recipe deleted while the requester's other recipe and their tag, now
\* linked to no recipe, are still there.
C19_Witness ==
    /\ req.op = "destroy_recipe"
    /\ resp.status = 204
    /\ req.id \notin DOMAIN recipes
    /\ \E r \in DOMAIN recipes : recipes[r].user = req.user
    /\ \E t \in DOMAIN tags : tags[t].user = req.user
    /\ recipe_tags = {}

\* C20: when the requests taken have all run to their end, any two of them
\* by the same user that wrote the tags of two different recipes (each
\* recipe written by that request alone) and both named a tag n, in whatever
\* order their lookup, insert and link steps ran, leave exactly one Tag of
\* that user called n, and both recipes are linked to it.
C20_SoleWriter(p) ==
    \A q \in DOMAIN inflight : q # p => inflight[q].recipe # inflight[p].recipe

C20_OneTagForBoth ==
    (\A p \in DOMAIN inflight : inflight[p].pc \in {"done", "failed"}) =>
        \A p, q \in DOMAIN inflight :
            (/\ p # q
             /\ inflight[p].user = inflight[q].user
             /\ C20_SoleWriter(p) /\ C20_SoleWriter(q)) =>
                \A n \in NamesOf(inflight[p].tagNames) \cap NamesOf(inflight[q].tagNames) :
                    LET found == Matching(tags, inflight[p].user, n)
                    IN  /\ Cardinality(found) = 1
                        /\ found \subseteq LinkedTo(recipe_tags, inflight[p].recipe)
                        /\ found \subseteq LinkedTo(recipe_tags, inflight[q].recipe)

\* C21: in every reachable state a user owns at most one tag and at most one
\* ingredient of a name (the get-or-create lookup by requesting user and
\* name matches at most one record), and no recipe create or update that
\* passed validation ends in an unhandled failure (500).
C21_AtMostOne(table) ==
    \A t1, t2 \in DOMAIN table :
        table[t1].user = table[t2].user /\ table[t1].name = table[t2].name => t1 = t2

C21_LookupMatchesOne ==
    /\ C21_AtMostOne(tags)
    /\ C21_AtMostOne(ingredients)
    /\ req.op \in {"create_recipe", "update_recipe"} => resp.status # 500

\* C22: every tag and every ingredient linked to a recipe is owned by the
\* recipe's owner, and a recipe create or update that succeeds links the
\* recipe, for each name of its payload, to a record of that name owned by
\* the requester, whoever else owns a record of the name.
C22_Owned(table, links) ==
    \A l \in links :
        /\ l[1] \in DOMAIN recipes
        /\ l[2] \in DOMAIN table
        /\ table[l[2]].user = recipes[l[1]].user

C22_Resolved(table, links, key) ==
    IsPresent(key) =>
        \A n \in NamesOf(Val(key)) :
            \E t \in LinkedTo(links, resp.data[1]) :
                table[t].user = req.user /\ table[t].name = n

C22_LinkedItemsOwned ==
    /\ C22_Owned(tags, recipe_tags)
    /\ C22_Owned(ingredients, recipe_ingredients)
    /\ req.op \in {"create_recipe", "update_recipe"} /\ resp.status \in {200, 201} =>
          /\ C22_Resolved(tags, recipe_tags, req.payload.tags)
          /\ C22_Resolved(ingredients, recipe_ingredients, req.payload.ingredients)

\* u2 names ingredient a while only u1 owns an ingredient a: the request made
\* a new record for u2 and linked the recipe to it, not to u1's.
C22_Witness ==
    /\ req.op \in {"create_recipe", "update_recipe"}
    /\ req.user = "u2"
    /\ resp.status \in {200, 201}
    /\ req.payload.ingredients = Some(<<"a">>)
    /\ Matching(ingredients, "u2", "a") = {seq.ingredient}
    /\ LinkedTo(recipe_ingredients, resp.data[1]) = {seq.ingredient}
    /\ \E t \in Matching(ingredients, "u1", "a") : t < seq.ingredient

\* C23: a tag (ingredient) list with assigned_only=0 is the list without
\* the parameter: all of the requester's items, those linked to no recipe
\* included, each of them once.
C23_All(table) ==
    /\ RespIds = {t \in DOMAIN table : table[t].user = req.user}
    /\ Len(resp.data) = Cardinality(RespIds)

C23_ZeroIsUnfiltered ==
    /\ req.op = "list_tags" /\ req.assigned_only \in {<<>>, <<"0">>} =>
          resp.status = 200 /\ C23_All(tags)
    /\ req.op = "list_ingredients" /\ req.assigned_only \in {<<>>, <<"0">>} =>
          resp.status = 200 /\ C23_All(ingredients)

\* C24: a recipe update that is not answered 200 leaves the recipe as it
\* was: its row (the scalar fields), its tag set and its ingredient set.
C24_Same(id) ==
    /\ id \in DOMAIN recipes'
    /\ recipes'[id] = recipes[id]
    /\ LinkedTo(recipe_tags', id) = LinkedTo(recipe_tags, id)
    /\ LinkedTo(recipe_ingredients', id) = LinkedTo(recipe_ingredients, id)

C24_UpdateAllOrNothing ==
    [][req'.op = "update_recipe" /\ resp'.status # 200 /\ req'.id \in DOMAIN recipes =>
          C24_Same(req'.id)]_vars

\* C25: a recipe list whose tags or ingredients parameter has an element
\* that is not an integer (an empty element included) is answered 400 and
\* changes no record; a parameter with the empty value applies no filter.
C25_Malformed(param) ==
    /\ param \notin {<<>>, <<"">>}
    /\ \E i \in 1..Len(param) : param[i] \notin DOMAIN IntOf

C25_Unfiltered(param) == param \in {<<>>, <<"">>}

C25_MalformedIs400 ==
    [][req'.op = "list_recipes" =>
          /\ C25_Malformed(req'.tags) \/ C25_Malformed(req'.ingredients) =>
                resp'.status = 400 /\ UNCHANGED dbvars
          /\ C25_Unfiltered(req'.tags) /\ C25_Unfiltered(req'.ingredients) =>
                /\ resp'.status = 200
                /\ {resp'.data[i] : i \in 1..Len(resp'.data)} =
                      {r \in DOMAIN recipes : recipes[r].user = req'.user}
                /\ UNCHANGED dbvars]_vars
====
